---------------------------- MODULE Spec2Model ----------------------------
(***************************************************************************)
(* Model of the chat relay in src/server.py: the websocket receive loop    *)
(* (websocket_endpoint), the ConnectionManager registry, the history store *)
(* kept in Redis (append_history, get_history, ensure_system_message) and  *)
(* the cancellable streaming task generate_with_ollama.                    *)
(*                                                                         *)
(* Execution model (asyncio, one event loop): a coroutine runs alone from  *)
(* one await to the next, so one action of this module is the code between *)
(* two awaits of one coroutine.  A pc value names the await at which the   *)
(* coroutine is suspended.  The command an await issues (RPUSH, HSET,      *)
(* send_json ...) is handed over when the call is made, so its effect is   *)
(* part of the action that reaches the await; the action that leaves the   *)
(* await either continues with the result or, when Task.cancel() was       *)
(* called meanwhile, raises CancelledError at that await.                  *)
(*                                                                         *)
(* Text is a sequence of one-character strings, so that slicing, strip()   *)
(* and concatenation are computed.  One connection is modelled, with its   *)
(* fresh session id SID; the tasks created on it are numbered 1, 2, ... in *)
(* creation order (the identity of the asyncio.Task handle).               *)
(*                                                                         *)
(* Spec keeps the wall clock at its initial second (no claim settled under *)
(* it reads a timestamp); SpecTimed adds the step Tick that advances it.   *)
(* SpecMeta is the chat with the clock advancing and with user contents    *)
(* that are empty or longer than a preview, for the session metadata.      *)
(* SpecListing runs get_all_sessions on the stored metadata of a user with *)
(* several sessions.                                                       *)
(* Exceptions raised by Redis itself are not modelled.  The list of        *)
(* messages get_history returns to the task only feeds the request sent    *)
(* to the backend, whose answer is any sequence of at most MaxLines        *)
(* well-formed lines, so the task keeps no copy of it.                     *)
(***************************************************************************)
EXTENDS Integers, Sequences, FiniteSets, TLC

\* ------------------------------------------------------------------ bounds
\* user_message payloads the client sends on the connection (= tasks created)
MaxTasks == 2
\* stop_generation payloads the client sends on the connection
MaxStops == 1
\* well-formed lines the backend stream delivers to one run
MaxLines == 2
\* largest value of the wall clock int(time.time())
MaxTime == 1
\* sessions the user has in Redis when get_all_sessions is called
MaxSessions == 3

\* ------------------------------------------------------- program constants
TitleLen == 32
PreviewLen == 64

\* str(uuid4()) of the one connection, and the websocket handle bound to it
SID == << "s", "1" >>
WS == "ws"
None == 0
TaskIds == 1..MaxTasks

\* content of a user_message
UserContents == { <<"h", "i">> }
\* a content one character longer than a preview: PreviewLen times "x", then "y"
LongContent == [i \in 1..(PreviewLen + 1) |-> IF i <= PreviewLen THEN "x" ELSE "y"]
\* contents of a user_message that exercise the title and the preview
MetaContents == { << >>, LongContent }
\* message.content of a well-formed backend line
Fragments == { <<"a">>, <<" ">> }
SystemPrompt == <<"Y">>
\* seconds at which the listed sessions were last written
Stamps == { 9, 10, 20, 30 }

VARIABLES
    rpc,            \* await at which websocket_endpoint is suspended
    rcontent,       \* message["content"] of the user_message being handled
    rmeta,          \* local `meta` of the receive loop's append_history call
    manager,        \* ConnectionManager: active_connections, generation_tasks
    tasks,          \* the asyncio tasks running generate_with_ollama
    list,           \* Redis list chat:<uuid>:<session_id> (JSON entries)
    hash,           \* Redis hash chatmeta:<uuid>:<session_id>
    events,         \* JSON events the client has been sent, in order
    now,            \* int(time.time())
    nstops,         \* stop_generation payloads read so far
    calls,          \* history: the append_history calls in call order, each
                    \* with its caller (0 = receive loop, t = task t)
    stopObs,        \* history: what the last stop_task call saw and did
    store,          \* Redis hashes chatmeta:<uuid>:* of the user, by session id
    gpc,            \* await at which get_all_sessions is suspended
    gkeys,          \* its local `keys`, in the order KEYS returned them
    gi,             \* position in gkeys of the key whose HGETALL is awaited
    gsessions       \* its local `sessions`; the returned list once gpc = "done"

\* the chat of one connection
mvars == << rpc, rcontent, rmeta, manager, tasks, list, hash, events, now,
            nstops, calls, stopObs >>

\* the session listing (GET /history_sessions)
lvars == << store, gpc, gkeys, gi, gsessions >>

vars == << mvars, lvars >>

\* ------------------------------------------------------------ text helpers
Min(a, b) == IF a < b THEN a ELSE b

\* s[:n]
Prefix(s, n) == SubSeq(s, 1, Min(n, Len(s)))

IsSpace(c) == c = " "

RECURSIVE LStrip(_)
LStrip(s) == IF s # <<>> /\ IsSpace(Head(s)) THEN LStrip(Tail(s)) ELSE s

RECURSIVE RStrip(_)
RStrip(s) ==
    IF s # <<>> /\ IsSpace(s[Len(s)]) THEN RStrip(SubSeq(s, 1, Len(s) - 1)) ELSE s

\* str.strip()
Strip(s) == RStrip(LStrip(s))

IsPrefixOf(s, t) == Len(s) <= Len(t) /\ SubSeq(t, 1, Len(s)) = s

RECURSIVE Concat(_)
Concat(ss) == IF ss = <<>> THEN <<>> ELSE Head(ss) \o Concat(Tail(ss))

\* str(int) and int(str) for the decimal numerals of the clock values
Digits == << "0", "1", "2", "3", "4", "5", "6", "7", "8", "9" >>

RECURSIVE IntToStr(_)
IntToStr(n) ==
    IF n < 10 THEN << Digits[n + 1] >>
    ELSE IntToStr(n \div 10) \o << Digits[(n % 10) + 1] >>

DigitVal(c) == (CHOOSE i \in 1..10 : Digits[i] = c) - 1

RECURSIVE StrToInt(_)
StrToInt(s) ==
    IF Len(s) = 1 THEN DigitVal(s[1])
    ELSE 10 * StrToInt(SubSeq(s, 1, Len(s) - 1)) + DigitVal(s[Len(s)])

\* json.dumps(entry): the stored form of a history entry, fields in dict order
Dumps(entry) == << entry.role, entry.content, entry.timestamp >>

\* json.loads(e) of a stored entry
Loads(e) == [role |-> e[1], content |-> e[2], timestamp |-> e[3]]

\* ----------------------------------------------------- dict as set of items
HasKey(d, k) == \E p \in d : p[1] = k

\* d.get(k) (None when absent)
Get(d, k) == IF HasKey(d, k) THEN (CHOOSE p \in d : p[1] = k)[2] ELSE None

\* a buggy d[k] = v that keeps the previous item of k
SetItemKeep(d, k, v) == d \cup { <<k, v>> }

\* d[k] = v
SetItem(d, k, v) == { p \in d : p[1] # k } \cup { <<k, v>> }

\* del d[k] / d.pop(k, None)
DelItem(d, k) == { p \in d : p[1] # k }

\* ------------------------------------------------------------ asyncio.Task
Done(t) == t.pc = "done"

\* Task.cancel(): a finished task refuses; otherwise the request is counted
\* and CancelledError is thrown into the coroutine the next time it runs.
\* cancel_mark is history: how many events the client had been sent when
\* the first request was made (-1: none yet).
Cancel(tk, t) ==
    IF Done(tk[t]) THEN tk
    ELSE [tk EXCEPT ![t].must_cancel = TRUE,
                    ![t].num_cancels = @ + 1,
                    ![t].cancel_mark = IF @ = -1 THEN Len(events) ELSE @]

\* ------------------------------------------------------- ConnectionManager
\* ConnectionManager.__init__
NewManager == [active_connections |-> {}, generation_tasks |-> {}]

\* ConnectionManager.connect, after websocket.accept()
Register(m, session_id, ws) ==
    [m EXCEPT !.active_connections = SetItem(@, session_id, ws)]

\* a buggy set_task that registers the handle beside the previous one
SetTaskKeep(m, session_id, t) ==
    [m EXCEPT !.generation_tasks = SetItemKeep(@, session_id, t)]

\* ConnectionManager.set_task
SetTask(m, session_id, t) ==
    [m EXCEPT !.generation_tasks = SetItem(@, session_id, t)]

\* a buggy stop_task that reports without cancelling
StopTaskNoCancel(m, tk, session_id) ==
    LET t == Get(m.generation_tasks, session_id) IN
    IF t # None /\ ~Done(tk[t])
    THEN [ret |-> TRUE, manager |-> m, tasks |-> tk]
    ELSE [ret |-> FALSE, manager |-> m, tasks |-> tk]

\* a buggy stop_task that does not look at task.done()
StopTaskNoDoneCheck(m, tk, session_id) ==
    LET t == Get(m.generation_tasks, session_id) IN
    IF t # None
    THEN [ret |-> TRUE, manager |-> m, tasks |-> Cancel(tk, t)]
    ELSE [ret |-> FALSE, manager |-> m, tasks |-> tk]

\* ConnectionManager.stop_task: its return value and the state it leaves
StopTask(m, tk, session_id) ==
    LET t == Get(m.generation_tasks, session_id) IN
    IF t # None /\ ~Done(tk[t])
    THEN [ret |-> TRUE, manager |-> m, tasks |-> Cancel(tk, t)]
    ELSE [ret |-> FALSE, manager |-> m, tasks |-> tk]

\* a buggy disconnect that forgets the task: no pop, no cancel
DisconnectKeepTask(m, tk, session_id) ==
    [manager |-> [m EXCEPT !.active_connections = DelItem(@, session_id)],
     tasks |-> tk]

\* ConnectionManager.disconnect
Disconnect(m, tk, session_id) ==
    LET t == Get(m.generation_tasks, session_id) IN
    [manager |-> [active_connections |-> DelItem(m.active_connections, session_id),
                  generation_tasks |-> DelItem(m.generation_tasks, session_id)],
     tasks |-> IF t # None /\ ~Done(tk[t]) THEN Cancel(tk, t) ELSE tk]

\* what a stop_task call found (before) and left (after), for the history
\* variable stopObs
ObserveStop(m, tk, session_id, r) ==
    LET t == Get(m.generation_tasks, session_id) IN
    [called     |-> TRUE,
     registered |-> t # None,
     finished   |-> t # None /\ Done(tk[t]),
     ret        |-> r.ret,
     requested  |-> t # None /\ r.tasks[t].must_cancel
                             /\ r.tasks[t].num_cancels = tk[t].num_cancels + 1,
     waited     |-> t # None /\ r.tasks[t].pc # tk[t].pc,
     tasks_same |-> r.tasks = tk,
     maps_same  |-> r.manager = m]

NoStop ==
    [called |-> FALSE, registered |-> FALSE, finished |-> FALSE, ret |-> FALSE,
     requested |-> FALSE, waited |-> FALSE, tasks_same |-> TRUE,
     maps_same |-> TRUE]

\* ------------------------------------------------------------- history store
Entry(role, content, ts) == [role |-> role, content |-> content, timestamp |-> ts]

\* a buggy append that pushes at the head (LPUSH)
LPush(l, e) == << Dumps(e) >> \o l

\* redis rpush(session_key, json.dumps(entry))
RPush(l, e) == Append(l, Dumps(e))

\* redis hset(key, mapping=m)
HSet(h, m) == { p \in h : ~HasKey(m, p[1]) } \cup m

\* not meta.get(k): the field is absent or the empty string
Falsy(meta, k) == ~HasKey(meta, k) \/ Get(meta, k) = <<>>

\* the mapping append_history writes for role == "user"
UserMapping(meta, session_id, content, ts) ==
    { << "session_id", session_id >>,
      << "title", IF Falsy(meta, "title") THEN Prefix(content, TitleLen)
                  ELSE Get(meta, "title") >>,
      << "preview", Prefix(content, PreviewLen) >>,
      << "updated_at", IntToStr(ts) >> }

\* the mapping append_history writes for role == "assistant"
AssistantMapping(session_id, content, ts) ==
    { << "session_id", session_id >>,
      << "preview", Prefix(content, PreviewLen) >>,
      << "updated_at", IntToStr(ts) >> }

\* get_history: lrange 0 -1, each entry through json.loads
GetHistory(l) == [i \in 1..Len(l) |-> Loads(l[i])]

\* ------------------------------------------------------------------- tasks
NoTask ==
    [pc |-> "none", ctx |-> "", must_cancel |-> FALSE, num_cancels |-> 0,
     cancel_mark |-> -1,
     full_response |-> <<>>, chunks |-> <<>>, outcome |-> ""]

\* asyncio.create_task(generate_with_ollama(...)): scheduled, not yet run
NewTask == [NoTask EXCEPT !.pc = "created"]

NumCreated == Cardinality({ t \in TaskIds : tasks[t].pc # "none" })

\* the chat before the endpoint has run
InitChat ==
    /\ rpc = "start"
    /\ rcontent = <<>>
    /\ rmeta = {}
    /\ manager = NewManager
    /\ tasks = [t \in TaskIds |-> NoTask]
    /\ list = <<>>
    /\ hash = {}
    /\ events = <<>>
    /\ now = 0
    /\ nstops = 0
    /\ calls = <<>>
    /\ stopObs = NoStop

\* no listing is run beside the chat
Init ==
    /\ InitChat
    /\ store = {}
    /\ gpc = "idle"
    /\ gkeys = <<>>
    /\ gi = 0
    /\ gsessions = <<>>

\* the websocket is usable until the endpoint has left its receive loop
WsOpen == rpc # "closed"

\* ------------------------------------------------------ websocket_endpoint
\* session_id = str(uuid4()); ensure_system_message issues LLEN
Endpoint_Start ==
    /\ rpc = "start"
    /\ rpc' = "e_llen"
    /\ UNCHANGED << lvars, rcontent, rmeta, manager, tasks, list, hash, events, now,
                    nstops, calls, stopObs >>

\* LLEN replied: an empty list gets the system message (append_history issues
\* RPUSH); otherwise nothing is appended and manager.connect awaits accept()
Endpoint_AfterLlen ==
    /\ rpc = "e_llen"
    /\ IF Len(list) = 0
       THEN /\ list' = RPush(list, Entry("system", SystemPrompt, now))
            /\ calls' = Append(calls, [by |-> 0,
                                       entry |-> Entry("system", SystemPrompt, now)])
            /\ rpc' = "e_rpush"
       ELSE /\ rpc' = "accept"
            /\ UNCHANGED << list, calls >>
    /\ UNCHANGED << lvars, rcontent, rmeta, manager, tasks, hash, events, now,
                    nstops, stopObs >>

\* append_history(system): RPUSH replied, HGETALL issued
Endpoint_AfterRpush ==
    /\ rpc = "e_rpush"
    /\ rmeta' = hash
    /\ rpc' = "e_hgetall"
    /\ UNCHANGED << lvars, rcontent, manager, tasks, list, hash, events, now,
                    nstops, calls, stopObs >>

\* append_history(system): role is neither user nor assistant, so no HSET;
\* manager.connect awaits websocket.accept()
Endpoint_AfterHgetall ==
    /\ rpc = "e_hgetall"
    /\ rpc' = "accept"
    /\ rmeta' = {}
    /\ UNCHANGED << lvars, rcontent, manager, tasks, list, hash, events, now,
                    nstops, calls, stopObs >>

\* manager.connect: the connection is registered and session_id is sent
Connect_AfterAccept ==
    /\ rpc = "accept"
    /\ manager' = Register(manager, SID, WS)
    /\ events' = Append(events, [type |-> "session_id", session_id |-> SID, src |-> 0])
    /\ rpc' = "send_sid"
    /\ UNCHANGED << lvars, rcontent, rmeta, tasks, list, hash, now, nstops,
                    calls, stopObs >>

\* the receive loop awaits websocket.receive_text()
Connect_AfterSend ==
    /\ rpc = "send_sid"
    /\ rpc' = "recv"
    /\ UNCHANGED << lvars, rcontent, rmeta, manager, tasks, list, hash, events, now,
                    nstops, calls, stopObs >>

\* {"type": "user_message", "content": c}: stop_task, then append_history
\* issues the RPUSH of the user entry
UserMessage(c) ==
    /\ rpc = "recv"
    /\ NumCreated < MaxTasks
    /\ LET r == StopTask(manager, tasks, SID) IN
         /\ stopObs' = ObserveStop(manager, tasks, SID, r)
         /\ manager' = r.manager
         /\ tasks' = r.tasks
    /\ list' = RPush(list, Entry("user", c, now))
    /\ calls' = Append(calls, [by |-> 0, entry |-> Entry("user", c, now)])
    /\ rcontent' = c
    /\ rpc' = "u_rpush"
    /\ UNCHANGED << lvars, rmeta, hash, events, now, nstops >>

\* the client sends a user_message with one of the contents UserContents
Recv_UserMessage == \E c \in UserContents : UserMessage(c)

\* append_history(user): RPUSH replied, HGETALL issued
User_AfterRpush ==
    /\ rpc = "u_rpush"
    /\ rmeta' = hash
    /\ rpc' = "u_hgetall"
    /\ UNCHANGED << lvars, rcontent, manager, tasks, list, hash, events, now,
                    nstops, calls, stopObs >>

\* append_history(user): HGETALL replied, HSET of the user mapping issued
User_AfterHgetall ==
    /\ rpc = "u_hgetall"
    /\ hash' = HSet(hash, UserMapping(rmeta, SID, rcontent, now))
    /\ rpc' = "u_hset"
    /\ rmeta' = {}
    /\ rcontent' = <<>>
    /\ UNCHANGED << lvars, manager, tasks, list, events, now,
                    nstops, calls, stopObs >>

\* append_history returned: create_task, set_task, back to receive_text()
User_AfterHset ==
    /\ rpc = "u_hset"
    /\ LET t == NumCreated + 1 IN
         /\ tasks' = [tasks EXCEPT ![t] = NewTask]
         /\ manager' = SetTask(manager, SID, t)
    /\ rpc' = "recv"
    /\ UNCHANGED << lvars, rcontent, rmeta, list, hash, events, now, nstops,
                    calls, stopObs >>

\* {"type": "stop_generation"}: stop_task; when it returned True,
\* manager.send_message sends "stopped" on the registered connection
Recv_StopGeneration ==
    /\ rpc = "recv"
    /\ nstops < MaxStops
    /\ LET r == StopTask(manager, tasks, SID) IN
         /\ stopObs' = ObserveStop(manager, tasks, SID, r)
         /\ manager' = r.manager
         /\ tasks' = r.tasks
         /\ IF r.ret /\ HasKey(r.manager.active_connections, SID)
            THEN /\ events' = Append(events, [type |-> "stopped", src |-> 0])
                 /\ rpc' = "s_send"
            ELSE /\ rpc' = "recv"
                 /\ UNCHANGED events
    /\ nstops' = nstops + 1
    /\ UNCHANGED << lvars, rcontent, rmeta, list, hash, now, calls >>

\* the "stopped" acknowledgement is sent; back to receive_text()
Stop_AfterSend ==
    /\ rpc = "s_send"
    /\ rpc' = "recv"
    /\ UNCHANGED << lvars, rcontent, rmeta, manager, tasks, list, hash, events, now,
                    nstops, calls, stopObs >>

\* text that is not JSON: json.loads raises JSONDecodeError, which is logged
Recv_InvalidJson ==
    /\ rpc = "recv"
    /\ UNCHANGED vars

\* a JSON object whose "type" is neither user_message nor stop_generation
Recv_UnknownType ==
    /\ rpc = "recv"
    /\ UNCHANGED vars

\* JSON that is not an object (a list, a number, a string): message.get
\* raises AttributeError, caught by `except Exception`: manager.disconnect
Recv_NotObject ==
    /\ rpc = "recv"
    /\ LET d == Disconnect(manager, tasks, SID) IN
         /\ manager' = d.manager
         /\ tasks' = d.tasks
    /\ rpc' = "closed"
    /\ UNCHANGED << lvars, rcontent, rmeta, list, hash, events, now, nstops, calls,
                    stopObs >>

\* {"type": "user_message"} without "content": stop_task has run when
\* message["content"] raises KeyError, caught by `except Exception`
Recv_NoContent ==
    /\ rpc = "recv"
    /\ LET r == StopTask(manager, tasks, SID)
           d == Disconnect(r.manager, r.tasks, SID) IN
         /\ stopObs' = ObserveStop(manager, tasks, SID, r)
         /\ manager' = d.manager
         /\ tasks' = d.tasks
    /\ rpc' = "closed"
    /\ UNCHANGED << lvars, rcontent, rmeta, list, hash, events, now, nstops, calls >>

\* the client closes: receive_text raises WebSocketDisconnect
Recv_Disconnect ==
    /\ rpc = "recv"
    /\ LET d == Disconnect(manager, tasks, SID) IN
         /\ manager' = d.manager
         /\ tasks' = d.tasks
    /\ rpc' = "closed"
    /\ UNCHANGED << lvars, rcontent, rmeta, list, hash, events, now, nstops,
                    calls, stopObs >>

\* the wall clock advances
Tick ==
    /\ now < MaxTime
    /\ now' = now + 1
    /\ UNCHANGED << lvars, rpc, rcontent, rmeta, manager, tasks, list, hash, events,
                    nstops, calls, stopObs >>

\* ---------------------------------------------------- generate_with_ollama
\* What one step of task t reads and writes: its own record, the Redis list
\* and hash, the client's events and the history variable calls.
World(t) ==
    [task |-> tasks[t], list |-> list, hash |-> hash, events |-> events,
     calls |-> calls]

Commit(t, w) ==
    /\ tasks' = [tasks EXCEPT ![t] = w.task]
    /\ list' = w.list
    /\ hash' = w.hash
    /\ events' = w.events
    /\ calls' = w.calls
    /\ UNCHANGED << lvars, rpc, rcontent, rmeta, manager, now, nstops, stopObs >>

\* the coroutine ends: it returned, raised, or let CancelledError escape
Finish(w, outcome) ==
    [w EXCEPT !.task.pc = "done", !.task.outcome = outcome,
              !.task.must_cancel = FALSE]

\* websocket.send_json({"type": "error", ...}) in `except Exception`; on a
\* closed websocket the send raises and the exception leaves the coroutine
SendError(w, t) ==
    IF WsOpen
    THEN [w EXCEPT !.events = Append(@, [type |-> "error", src |-> t]),
                   !.task.pc = "send_error"]
    ELSE Finish(w, "raised")

\* websocket.send_json({"type": "stopped"}) in `except CancelledError`
SendStopped(w, t) ==
    IF WsOpen
    THEN [w EXCEPT !.events = Append(@, [type |-> "stopped", src |-> t]),
                   !.task.pc = "send_stopped"]
    ELSE Finish(w, "raised")

\* websocket.send_json({"type": "response_end"}) inside the try block
SendEnd(w, t) ==
    IF WsOpen
    THEN [w EXCEPT !.events = Append(@, [type |-> "response_end", src |-> t]),
                   !.task.pc = "send_end"]
    ELSE SendError(w, t)

\* websocket.send_json({"type": "response_chunk", "content": chunk}); an
\* exception of the send is caught by the inner `except Exception`, logged,
\* and the loop reads the next line
SendChunk(w, t, chunk) ==
    IF WsOpen
    THEN [w EXCEPT !.events = Append(@, [type |-> "response_chunk",
                                         content |-> chunk, src |-> t]),
                   !.task.pc = "send_chunk"]
    ELSE [w EXCEPT !.task.pc = "read"]

\* a buggy accumulation that keeps only the last chunk
AccumulateLast(full_response, chunk) == chunk

\* full_response += chunk
Accumulate(full_response, chunk) == full_response \o chunk

\* append_history(uuid, session_id, role, content) up to its first await:
\* the entry is built with int(time.time()) and RPUSH is issued; ctx records
\* the call site ("seed": ensure_system_message, "normal": stream exhausted,
\* "handler": except CancelledError)
StartAppend(w, t, ctx, role, content) ==
    [w EXCEPT !.list = RPush(@, Entry(role, content, now)),
              !.calls = Append(@, [by |-> t, entry |-> Entry(role, content, now)]),
              !.task.pc = "rpush",
              !.task.ctx = ctx]

\* except asyncio.CancelledError: save the partial answer when
\* full_response.strip() is non-empty, then send "stopped"
OnCancelled(w, t) ==
    LET v == [w EXCEPT !.task.must_cancel = FALSE] IN
    IF Strip(v.task.full_response) # <<>>
    THEN StartAppend(v, t, "handler", "assistant", v.task.full_response)
    ELSE SendStopped(v, t)

\* the awaits inside `try:` whose CancelledError the handler catches
InTry(tk) ==
    \/ tk.pc \in { "post", "read", "send_chunk", "send_end" }
    \/ tk.pc \in { "rpush", "hgetall", "hset" } /\ tk.ctx = "normal"

Running(tk) == tk.pc \notin { "none", "done" }

\* Task.cancel() was called: the next step of the task throws CancelledError
\* at the await it is suspended at (before its first line when it has not
\* started).  Inside `try:` the handler runs; anywhere else (before the try,
\* inside a handler) the error leaves the coroutine.
Task_Cancelled(t) ==
    /\ Running(tasks[t])
    /\ tasks[t].must_cancel
    /\ Commit(t, IF InTry(tasks[t]) THEN OnCancelled(World(t), t)
                 ELSE Finish(World(t), "cancelled"))

\* first step of the task: ensure_system_message issues LLEN
Task_Start(t) ==
    /\ tasks[t].pc = "created"
    /\ ~tasks[t].must_cancel
    /\ Commit(t, [World(t) EXCEPT !.task.pc = "llen"])

\* a buggy ensure_system_message that seeds without looking at LLEN
Task_AfterLlenAlways(t) ==
    /\ tasks[t].pc = "llen"
    /\ ~tasks[t].must_cancel
    /\ Commit(t, StartAppend(World(t), t, "seed", "system", SystemPrompt))

\* ensure_system_message: LLEN replied; an empty list gets the system
\* message, otherwise get_history issues LRANGE
Task_AfterLlen(t) ==
    /\ tasks[t].pc = "llen"
    /\ ~tasks[t].must_cancel
    /\ Commit(t, IF Len(list) = 0
                 THEN StartAppend(World(t), t, "seed", "system", SystemPrompt)
                 ELSE [World(t) EXCEPT !.task.pc = "lrange"])

\* append_history: RPUSH replied, HGETALL issued (its result is used only
\* for role == "user", which no task appends)
Task_AfterRpush(t) ==
    /\ tasks[t].pc = "rpush"
    /\ ~tasks[t].must_cancel
    /\ Commit(t, [World(t) EXCEPT !.task.pc = "hgetall"])

\* append_history: HGETALL replied; role assistant issues HSET, role system
\* writes nothing and get_history issues LRANGE
Task_AfterHgetall(t) ==
    /\ tasks[t].pc = "hgetall"
    /\ ~tasks[t].must_cancel
    /\ Commit(t, IF tasks[t].ctx = "seed"
                 THEN [World(t) EXCEPT !.task.pc = "lrange"]
                 ELSE [World(t) EXCEPT
                         !.hash = HSet(@, AssistantMapping(SID,
                                          tasks[t].full_response, now)),
                         !.task.pc = "hset"])

\* append_history returned: response_end after the normal commit, stopped
\* after the handler's commit
Task_AfterHset(t) ==
    /\ tasks[t].pc = "hset"
    /\ ~tasks[t].must_cancel
    /\ Commit(t, IF tasks[t].ctx = "normal" THEN SendEnd(World(t), t)
                 ELSE SendStopped(World(t), t))

\* get_history returned: the payload is built and session.post is awaited
Task_AfterLrange(t) ==
    /\ tasks[t].pc = "lrange"
    /\ ~tasks[t].must_cancel
    /\ Commit(t, [World(t) EXCEPT !.task.pc = "post"])

\* the backend answered: the loop awaits the first line of resp.content
Task_AfterPost(t) ==
    /\ tasks[t].pc = "post"
    /\ ~tasks[t].must_cancel
    /\ Commit(t, [World(t) EXCEPT !.task.pc = "read"])

\* the request or the stream fails (connection refused, timeout, abort):
\* `except Exception` sends the error event
Task_BackendError(t) ==
    /\ tasks[t].pc \in { "post", "read" }
    /\ ~tasks[t].must_cancel
    /\ Commit(t, SendError(World(t), t))

\* a blank line (continue) or a line json.loads / .get cannot take (logged)
Task_ReadSkip(t) ==
    /\ tasks[t].pc = "read"
    /\ ~tasks[t].must_cancel
    /\ Commit(t, World(t))

\* a well-formed line: its chunk is accumulated and sent
Task_ReadChunk(t) ==
    /\ tasks[t].pc = "read"
    /\ ~tasks[t].must_cancel
    /\ Len(tasks[t].chunks) < MaxLines
    /\ \E chunk \in Fragments :
         Commit(t, SendChunk([World(t) EXCEPT
                                !.task.chunks = Append(@, chunk),
                                !.task.full_response = Accumulate(@, chunk)],
                             t, chunk))

\* the stream is exhausted: append_history(assistant, full_response)
Task_ReadEof(t) ==
    /\ tasks[t].pc = "read"
    /\ ~tasks[t].must_cancel
    /\ Commit(t, StartAppend(World(t), t, "normal", "assistant",
                             tasks[t].full_response))

\* the chunk is sent: the loop awaits the next line
Task_AfterSendChunk(t) ==
    /\ tasks[t].pc = "send_chunk"
    /\ ~tasks[t].must_cancel
    /\ Commit(t, [World(t) EXCEPT !.task.pc = "read"])

\* the terminal event is sent: the coroutine returns
Task_Return(t) ==
    /\ tasks[t].pc \in { "send_end", "send_stopped", "send_error" }
    /\ ~tasks[t].must_cancel
    /\ Commit(t, Finish(World(t), "returned"))

TaskStep(t) ==
    \/ Task_Cancelled(t)
    \/ Task_Start(t)
    \/ Task_AfterLlen(t)
    \/ Task_AfterRpush(t)
    \/ Task_AfterHgetall(t)
    \/ Task_AfterHset(t)
    \/ Task_AfterLrange(t)
    \/ Task_AfterPost(t)
    \/ Task_BackendError(t)
    \/ Task_ReadSkip(t)
    \/ Task_ReadChunk(t)
    \/ Task_ReadEof(t)
    \/ Task_AfterSendChunk(t)
    \/ Task_Return(t)

Next ==
    \/ Endpoint_Start
    \/ Endpoint_AfterLlen
    \/ Endpoint_AfterRpush
    \/ Endpoint_AfterHgetall
    \/ Connect_AfterAccept
    \/ Connect_AfterSend
    \/ Recv_UserMessage
    \/ User_AfterRpush
    \/ User_AfterHgetall
    \/ User_AfterHset
    \/ Recv_StopGeneration
    \/ Stop_AfterSend
    \/ Recv_InvalidJson
    \/ Recv_UnknownType
    \/ Recv_NotObject
    \/ Recv_NoContent
    \/ Recv_Disconnect
    \/ \E t \in TaskIds : TaskStep(t)

Spec == Init /\ [][Next]_vars

\* the wall clock advancing between any two steps
NextTimed == Next \/ Tick

SpecTimed == Init /\ [][NextTimed]_vars

\* The chat as the session metadata sees it: the clock advances, and the
\* client sends user_messages whose content is empty or longer than a
\* preview, and may disconnect.  Every step is a step of the program; the
\* payloads and backend failures that write neither the log nor the hash
\* (stop_generation, malformed payloads, blank lines, backend errors) are
\* left out to keep the state space finite enough to enumerate.
Recv_UserMessageMeta == \E c \in MetaContents : UserMessage(c)

TaskStepMeta(t) ==
    \/ Task_Cancelled(t)
    \/ Task_Start(t)
    \/ Task_AfterLlen(t)
    \/ Task_AfterRpush(t)
    \/ Task_AfterHgetall(t)
    \/ Task_AfterHset(t)
    \/ Task_AfterLrange(t)
    \/ Task_AfterPost(t)
    \/ Task_ReadChunk(t)
    \/ Task_ReadEof(t)
    \/ Task_AfterSendChunk(t)
    \/ Task_Return(t)

NextMeta ==
    \/ Endpoint_Start
    \/ Endpoint_AfterLlen
    \/ Endpoint_AfterRpush
    \/ Endpoint_AfterHgetall
    \/ Connect_AfterAccept
    \/ Connect_AfterSend
    \/ Recv_UserMessageMeta
    \/ User_AfterRpush
    \/ User_AfterHgetall
    \/ User_AfterHset
    \/ Recv_Disconnect
    \/ Tick
    \/ \E t \in TaskIds : TaskStepMeta(t)

SpecMeta == Init /\ [][NextMeta]_vars

\* -------------------------------------------------------- get_all_sessions
\* the session ids under which the user has a chatmeta hash
UserSessions == { << "s", IntToStr(k) >> : k \in 1..MaxSessions }

\* the hash append_history leaves for a session last written at second ts
MetaAt(session_id, ts) ==
    HSet({}, UserMapping({}, session_id, << "h", "i" >>, ts))

\* the keyspaces the listing is run on: any subset of the user's sessions,
\* each last written at one of the seconds Stamps
Keyspaces ==
    UNION { { { << k, MetaAt(k, f[k]) >> : k \in S } : f \in [S -> Stamps] } :
            S \in SUBSET UserSessions }

\* redis keys(pattern): the matching keys, in no particular order
KeysReplies(st) ==
    LET K == { p[1] : p \in st } IN
    { q \in [1..Cardinality(K) -> K] :
        \A i, j \in 1..Cardinality(K) : i # j => q[i] # q[j] }

\* redis hgetall(key): the empty dict when the key does not exist
HGetAll(st, k) == IF HasKey(st, k) THEN Get(st, k) ELSE {}

\* key=lambda x: int(x.get("updated_at", "0"))
SortKey(x) ==
    StrToInt(IF HasKey(x, "updated_at") THEN Get(x, "updated_at") ELSE << "0" >>)

\* a buggy sort that forgets reverse=True
InsertAscending(sorted, x) ==
    LET n == Cardinality({ i \in 1..Len(sorted) : SortKey(sorted[i]) <= SortKey(x) })
    IN  SubSeq(sorted, 1, n) \o << x >> \o SubSeq(sorted, n + 1, Len(sorted))

\* one element put into a list sorted by descending key, behind the elements
\* whose key is greater or equal (list.sort is stable, also with reverse=True)
InsertDescending(sorted, x) ==
    LET n == Cardinality({ i \in 1..Len(sorted) : SortKey(sorted[i]) >= SortKey(x) })
    IN  SubSeq(sorted, 1, n) \o << x >> \o SubSeq(sorted, n + 1, Len(sorted))

RECURSIVE SortSessions(_)
\* sessions.sort(key=..., reverse=True)
SortSessions(sessions) ==
    IF sessions = <<>> THEN <<>>
    ELSE InsertDescending(SortSessions(SubSeq(sessions, 1, Len(sessions) - 1)),
                          sessions[Len(sessions)])

\* the for loop of get_all_sessions at position i: HGETALL of the next key
\* is issued, or the list is sorted and returned
ListingLoop(keys, i, sessions) ==
    IF i <= Len(keys)
    THEN /\ gpc' = "hgetall"
         /\ gi' = i
         /\ gsessions' = sessions
    ELSE /\ gpc' = "done"
         /\ gi' = i
         /\ gsessions' = SortSessions(sessions)

\* get_all_sessions is called: KEYS chatmeta:<uuid>:* is issued
Listing_Start ==
    /\ gpc = "idle"
    /\ gpc' = "keys"
    /\ UNCHANGED << mvars, store, gkeys, gi, gsessions >>

\* KEYS replied
Listing_AfterKeys ==
    /\ gpc = "keys"
    /\ \E keys \in KeysReplies(store) :
         /\ gkeys' = keys
         /\ ListingLoop(keys, 1, << >>)
    /\ UNCHANGED << mvars, store >>

\* HGETALL replied: `if meta: sessions.append(meta)`
Listing_AfterHgetall ==
    /\ gpc = "hgetall"
    /\ LET meta == HGetAll(store, gkeys[gi]) IN
         ListingLoop(gkeys, gi + 1,
                     IF meta # {} THEN Append(gsessions, meta) ELSE gsessions)
    /\ UNCHANGED << mvars, store, gkeys >>

\* the second at which the listing runs: the latest of Stamps
ListingTime == CHOOSE s \in Stamps : \A r \in Stamps : r <= s

\* while the listing is suspended, an append_history call of another
\* connection rewrites the hash of one of the sessions at the current second
Listing_Touched ==
    /\ gpc \in { "keys", "hgetall" }
    /\ \E p \in store :
         /\ SortKey(p[2]) < ListingTime
         /\ store' = SetItem(store, p[1],
                             HSet(p[2], AssistantMapping(p[1], << "a" >>,
                                                         ListingTime)))
    /\ UNCHANGED << mvars, gpc, gkeys, gi, gsessions >>

InitListing ==
    /\ InitChat
    /\ store \in Keyspaces
    /\ gpc = "idle"
    /\ gkeys = <<>>
    /\ gi = 0
    /\ gsessions = <<>>

NextListing ==
    \/ Listing_Start
    \/ Listing_AfterKeys
    \/ Listing_AfterHgetall
    \/ Listing_Touched

\* get_all_sessions run on every keyspace of Keyspaces
SpecListing == InitListing /\ [][NextListing]_vars

\* ------------------------------------------------------- derived notions
\* the events task t (0: the receive loop) sent, in order
RECURSIVE EventsOf(_, _)
EventsOf(evs, t) ==
    IF evs = <<>> THEN <<>>
    ELSE IF Head(evs).src = t THEN << Head(evs) >> \o EventsOf(Tail(evs), t)
         ELSE EventsOf(Tail(evs), t)

Terminal == { "response_end", "stopped", "error" }

\* the positions in calls of the assistant messages task t appended
AssistantCalls(t) ==
    { i \in 1..Len(calls) : calls[i].by = t /\ calls[i].entry.role = "assistant" }

\* the entries of the append_history calls, in call order
CalledEntries == [i \in 1..Len(calls) |-> calls[i].entry]

\* the turn an append belongs to: task t answers the t-th user message
UserCallsUpTo(i) ==
    Cardinality({ j \in 1..i : calls[j].by = 0 /\ calls[j].entry.role = "user" })

Turn(i) == IF calls[i].by = 0 THEN UserCallsUpTo(i) ELSE calls[i].by

\* coroutines that are inside append_history (between its RPUSH and its return)
ReceiveLoopAppending == rpc \in { "e_rpush", "e_hgetall", "u_rpush", "u_hgetall", "u_hset" }

TasksAppending == { t \in TaskIds : tasks[t].pc \in { "rpush", "hgetall", "hset" } }

RegisteredFor(d, session_id) == { p \in d : p[1] = session_id }

SessionIds ==
    { SID } \cup { p[1] : p \in manager.active_connections }
            \cup { p[1] : p \in manager.generation_tasks }

\* ------------------------------------------------------------------ claims

\* C1: in every reachable state and for every session_id the registry holds
\* at most one connection and at most one generation-task handle; set_task
\* replaces the previous handle, so two tasks are never registered together
\* for one session.
C1_AtMostOneRegistered ==
    \A sid \in SessionIds :
        /\ Cardinality(RegisteredFor(manager.active_connections, sid)) <= 1
        /\ Cardinality(RegisteredFor(manager.generation_tasks, sid)) <= 1

\* C1 witness: set_task has registered the second task while the first one,
\* registered before it, has not finished.
C1_Witness ==
    /\ manager.generation_tasks = { << SID, 2 >> }
    /\ manager.active_connections = { << SID, WS >> }
    /\ Running(tasks[1])
    /\ Running(tasks[2])

\* C2: the message log is append-only: every step leaves the log a prefix of
\* the new log, and get_history returns exactly the entries of the
\* append_history calls made so far, in call order.
C2_AppendOnly ==
    [][ /\ IsPrefixOf(GetHistory(list), GetHistory(list'))
        /\ GetHistory(list') = CalledEntries' ]_vars

\* C2 witness: a cancelled task has committed its partial answer, and the
\* log has grown past it (system, user, user, partial, ...).
C2_Witness ==
    /\ Len(list) >= 5
    /\ \E i \in AssistantCalls(1) : i < Len(list)
    /\ tasks[1].num_cancels > 0
    /\ GetHistory(list) = CalledEntries

\* C3 (as claimed): a run that was cancelled appends exactly one assistant
\* message, the concatenation of the fragments accumulated so far, when its
\* accumulator is non-empty, and none when it is empty, at whatever await
\* the cancellation reaches it.
C3_CancelCommitsExactlyOnce ==
    \A t \in TaskIds :
        (Done(tasks[t]) /\ tasks[t].num_cancels > 0) =>
            IF tasks[t].full_response # <<>>
            THEN /\ Cardinality(AssistantCalls(t)) = 1
                 /\ \A i \in AssistantCalls(t) :
                        calls[i].entry.content = Concat(tasks[t].chunks)
            ELSE AssistantCalls(t) = {}

\* C4: when a user_message is handled while an earlier task is unfinished,
\* that task has had cancellation requested before the new task exists;
\* after the request it sends no response_chunk, only at most one stopped;
\* and the request precedes the first response_chunk of the new task.
C4_Supersede ==
    /\ \A t, u \in TaskIds :
          (t < u /\ tasks[u].pc # "none") =>
              (Done(tasks[t]) \/ tasks[t].num_cancels > 0)
    /\ \A t \in TaskIds :
          tasks[t].cancel_mark >= 0 =>
              LET after == { i \in (tasks[t].cancel_mark + 1)..Len(events) :
                                events[i].src = t } IN
              /\ Cardinality(after) <= 1
              /\ \A i \in after : events[i].type = "stopped"
    /\ \A i \in 1..Len(events) :
          (events[i].type = "response_chunk") =>
              /\ \A t \in 1..(events[i].src - 1) :
                    tasks[t].num_cancels = 0 \/ tasks[t].cancel_mark < i
              /\ \A j \in (i + 1)..Len(events) :
                    (events[j].src # 0 /\ events[j].src < events[i].src) =>
                        events[j].type = "stopped"

\* C4 witness: task 1 had sent a chunk and was unfinished when the second
\* user_message cancelled it; it then sent stopped, and task 2 sent a chunk.
C4_Witness ==
    /\ tasks[1].cancel_mark >= 2
    /\ \E i \in 1..tasks[1].cancel_mark :
          events[i].src = 1 /\ events[i].type = "response_chunk"
    /\ \E i \in 1..Len(events) : events[i].src = 1 /\ events[i].type = "stopped"
    /\ \E i \in 1..Len(events) : events[i].src = 2 /\ events[i].type = "response_chunk"
    /\ stopObs.ret
    /\ nstops = 0

ChunkEvents(t) ==
    [k \in 1..Len(tasks[t].chunks) |->
        [type |-> "response_chunk", content |-> tasks[t].chunks[k], src |-> t]]

SentEnd(t) == \E i \in 1..Len(events) : events[i].src = t /\ events[i].type = "response_end"

\* C5: a run that is never cancelled and whose stream ends without error
\* sends the response_chunk events in the order the fragments arrived, each
\* with its own fragment, then response_end; by the time response_end is
\* sent the log holds its one assistant message, whose content is the
\* concatenation of the chunks; after the first turn the log reads
\* [system, user, assistant].
C5_NormalCompletion ==
    \A t \in TaskIds :
        (tasks[t].num_cancels = 0 /\ SentEnd(t)) =>
            /\ EventsOf(events, t) =
                   ChunkEvents(t) \o << [type |-> "response_end", src |-> t] >>
            /\ Cardinality(AssistantCalls(t)) = 1
            /\ \A i \in AssistantCalls(t) :
                  /\ i <= Len(list)
                  /\ Loads(list[i]).role = "assistant"
                  /\ Loads(list[i]).content = Concat(tasks[t].chunks)
            /\ (t = 1 /\ UserCallsUpTo(Len(calls)) = 1) =>
                  /\ Len(list) = 3
                  /\ [i \in 1..3 |-> GetHistory(list)[i].role] =
                         << "system", "user", "assistant" >>
                  /\ GetHistory(list)[3].content = Concat(tasks[1].chunks)

\* C5 witness: task 1 received two fragments, was never cancelled and
\* returned after response_end.
C5_Witness ==
    /\ tasks[1].outcome = "returned"
    /\ tasks[1].num_cancels = 0
    /\ Len(tasks[1].chunks) = 2
    /\ tasks[1].chunks[1] # tasks[1].chunks[2]
    /\ SentEnd(1)

\* C6 (as claimed): a run sends at most one terminal event (response_end,
\* stopped, error), and that event is the last one it sends.
C6_OneTerminalEventLast ==
    \A t \in TaskIds :
        LET ev == EventsOf(events, t)
            term == { k \in 1..Len(ev) : ev[k].type \in Terminal } IN
        /\ Cardinality(term) <= 1
        /\ \A k \in term : k = Len(ev)

\* C7 (as claimed): when a run ends with a backend error after accumulating
\* a non-empty text, that text is in the history as an assistant message by
\* the time the error event is sent.
C7_ErrorCommitsPartial ==
    \A t \in TaskIds :
        ( /\ \E i \in 1..Len(events) : events[i].src = t /\ events[i].type = "error"
          /\ tasks[t].full_response # <<>> ) =>
            \E i \in AssistantCalls(t) :
                /\ i <= Len(list)
                /\ Loads(list[i]).content = tasks[t].full_response

\* C8 (as claimed): a payload that is no well-formed user_message or
\* stop_generation (invalid JSON, JSON that is no object, an unknown type, a
\* user_message without content) is ignored: the connection stays open and
\* registered, the loop keeps reading, nothing is appended and no task is
\* cancelled.
C8_MalformedIgnored ==
    [][ (Recv_InvalidJson \/ Recv_UnknownType \/ Recv_NotObject \/ Recv_NoContent) =>
            /\ rpc' = "recv"
            /\ manager' = manager
            /\ list' = list
            /\ tasks' = tasks ]_vars

\* C9 (as claimed): the appends of a session are serialized and never
\* reordered across turns: the partial answer of a superseded task comes
\* before the user message that superseded it, and no two coroutines are
\* inside append_history at the same time.
C9_AppendsSerialized ==
    /\ \A i, j \in 1..Len(calls) : i < j => Turn(i) <= Turn(j)
    /\ Cardinality(TasksAppending) + (IF ReceiveLoopAppending THEN 1 ELSE 0) <= 1

\* C10: stop_task returns True exactly when a task is registered for the
\* session and has not finished; it then requests the cancellation of that
\* task without running it; otherwise it changes no task.  In both cases
\* active_connections and generation_tasks are left as they were.
C10_StopTaskContract ==
    stopObs.called =>
        /\ stopObs.ret = (stopObs.registered /\ ~stopObs.finished)
        /\ stopObs.ret => (stopObs.requested /\ ~stopObs.waited)
        /\ ~stopObs.ret => stopObs.tasks_same
        /\ stopObs.maps_same

\* C10 witness: stop_task was called with a finished task registered and
\* returned False (a later stop_generation after the answer was complete).
C10_Witness ==
    /\ stopObs.called
    /\ stopObs.registered
    /\ stopObs.finished
    /\ ~stopObs.ret
    /\ stopObs.tasks_same

\* C10, second case reached: stop_task found an unfinished task and
\* requested its cancellation.
C10_WitnessActive ==
    /\ stopObs.called
    /\ stopObs.ret
    /\ stopObs.requested

\* C11: once the endpoint has left its receive loop (client disconnect or
\* an error caught by `except Exception`), the registry holds neither a
\* connection nor a task handle for the session, every task that is still
\* running has had cancellation requested, and no later step changes the
\* registry again.
C11_DisconnectTeardown ==
    [][ /\ rpc' = "closed" =>
            /\ ~HasKey(manager'.active_connections, SID)
            /\ ~HasKey(manager'.generation_tasks, SID)
            /\ \A t \in TaskIds : Running(tasks'[t]) => tasks'[t].num_cancels > 0
        /\ rpc = "closed" => (rpc' = "closed" /\ manager' = manager) ]_vars

\* C11 witness: the client disconnected while task 1, never cancelled
\* before, was streaming; disconnect requested its cancellation, and the
\* task has since unwound (its "stopped" could not be sent any more).
C11_Witness ==
    /\ rpc = "closed"
    /\ manager = NewManager
    /\ nstops = 0
    /\ tasks[2].pc = "none"
    /\ tasks[1].num_cancels = 1
    /\ tasks[1].chunks # <<>>
    /\ tasks[1].outcome = "raised"

\* the updated_at fields of a list of session hashes, as integers
UpdatedAts(sessions) == [i \in 1..Len(sessions) |-> SortKey(sessions[i])]

\* C12: get_all_sessions returns the user's sessions, one entry per key, in
\* descending order of updated_at: of any two returned entries the earlier
\* one has the greater or equal updated_at.
C12_SortedDescending ==
    gpc = "done" =>
        /\ \A i, j \in 1..Len(gsessions) :
              i < j => SortKey(gsessions[i]) >= SortKey(gsessions[j])
        /\ Len(gsessions) = Len(gkeys)
        /\ { Get(gsessions[i], "session_id") : i \in 1..Len(gsessions) } =
               { gkeys[i] : i \in 1..Len(gkeys) }

\* C12 witness: the hashes were read in the order 10, 30, 20 (none of them
\* rewritten meanwhile) and came back as 30, 20, 10.
C12_Witness ==
    /\ gpc = "done"
    /\ Len(gkeys) = 3
    /\ \A p \in store : Get(p[2], "preview") = << "h", "i" >>
    /\ UpdatedAts([i \in 1..3 |-> HGetAll(store, gkeys[i])]) = << 10, 30, 20 >>
    /\ UpdatedAts(gsessions) = << 30, 20, 10 >>

\* the positions of the system messages in the log
SystemPositions == { i \in 1..Len(list) : Loads(list[i]).role = "system" }

\* what ensure_system_message does to the log once LLEN has replied
Seeded(l, l2) ==
    IF l = <<>>
    THEN /\ Len(l2) = 1
         /\ Loads(l2[1]).role = "system"
         /\ Loads(l2[1]).content = SystemPrompt
    ELSE l2 = l

\* C13: ensure_system_message appends exactly one system message to an
\* empty log and changes nothing on a non-empty log, whoever calls it (the
\* endpoint on connect, every task at its start); and once the endpoint has
\* seeded the session the log holds exactly one system message, at
\* position 0, whatever happens afterwards.
C13_SeedingIdempotent ==
    [][ /\ (rpc = "e_llen" /\ rpc' # "e_llen") => Seeded(list, list')
        /\ \A t \in TaskIds :
              (tasks[t].pc = "llen" /\ tasks'[t].pc \notin { "llen", "done" }) =>
                  Seeded(list, list')
        /\ rpc' \notin { "start", "e_llen" } => SystemPositions' = { 1 } ]_vars

\* C13 witness: after the endpoint seeded the empty log, both tasks have run
\* ensure_system_message on the non-empty log, and the log has grown to
\* system, user, assistant, user.
C13_Witness ==
    /\ tasks[1].pc = "done"
    /\ tasks[1].outcome = "returned"
    /\ tasks[2].pc = "lrange"
    /\ Len(list) = 4
    /\ SystemPositions = { 1 }

\* the chatmeta keys of the chat's user: Redis keeps no key for a hash
\* without fields
ChatKeyspace == IF hash = {} THEN {} ELSE { << SID, hash >> }

\* the lists get_all_sessions can return when run on keyspace st
Listings(st) ==
    { SortSessions([i \in 1..Len(q) |-> HGetAll(st, q[i])]) : q \in KeysReplies(st) }

\* no append_history call is under way
NoAppendUnderWay == ~ReceiveLoopAppending /\ TasksAppending = {}

\* C14 (as claimed): a session whose log holds at least one message has a
\* metadata hash and is returned by get_all_sessions; the hash is written
\* by the first append, whatever its role.
C14_SessionIndexed ==
    (list # <<>> /\ NoAppendUnderWay) =>
        /\ hash # {}
        /\ \A r \in Listings(ChatKeyspace) :
              \E i \in 1..Len(r) : Get(r[i], "session_id") = SID

\* the most recently appended message of the session
LastMessage == Loads(list[Len(list)])

\* C15 (as claimed, for the appends that write the hash; the system message,
\* which writes none, is the case of C14): once an append of a user or
\* assistant message has returned, updated_at of the session's hash equals
\* the timestamp of the last message in the log.
C15_UpdatedAtIsLastTimestamp ==
    (list # <<>> /\ NoAppendUnderWay /\ LastMessage.role # "system") =>
        /\ HasKey(hash, "updated_at")
        /\ StrToInt(Get(hash, "updated_at")) = LastMessage.timestamp

\* the task is inside its `except CancelledError` handler: committing its
\* partial text or sending stopped
Unwinding(tk) ==
    \/ tk.pc \in { "rpush", "hgetall", "hset" } /\ tk.ctx = "handler"
    \/ tk.pc = "send_stopped"

\* the task has run its first step and is not done
Started(tk) == tk.pc \notin { "none", "created", "done" }

\* C16 (as claimed): at most one generation task of the session is
\* unfinished at any instant, so that no other task is running while a
\* superseded task is still unwinding its cancellation.
C16_NoTaskBesideUnwinding ==
    \A t, u \in TaskIds :
        (t # u /\ Unwinding(tasks[t])) => ~Started(tasks[u])

\* the terminal events task t has sent
TerminalEvents(t) ==
    { i \in 1..Len(events) : events[i].src = t /\ events[i].type \in Terminal }

\* C17 (as claimed, in the form a finite run can refute): a task that is
\* done while its connection is still open has reported a terminal event
\* (response_end, stopped or error) to it, also when it was cancelled
\* before its first step or while it was seeding or reading the history.
C17_DoneTaskReported ==
    \A t \in TaskIds :
        (Done(tasks[t]) /\ WsOpen) => TerminalEvents(t) # {}

\* C18 (as claimed): a task with a non-empty accumulator that received a
\* second cancellation request before it finished has, by the time it is
\* done, committed the accumulated text to the history as an assistant
\* message.
C18_RepeatedCancelKeepsText ==
    \A t \in TaskIds :
        ( /\ Done(tasks[t])
          /\ tasks[t].num_cancels >= 2
          /\ tasks[t].full_response # <<>> ) =>
            \E i \in AssistantCalls(t) :
                /\ i <= Len(list)
                /\ Loads(list[i]).role = "assistant"
                /\ Loads(list[i]).content = tasks[t].full_response

\* the positions of the user messages in the log
UserPositions == { i \in 1..Len(list) : Loads(list[i]).role = "user" }

\* the first user message of the session
FirstUserMessage ==
    Loads(list[CHOOSE i \in UserPositions : \A j \in UserPositions : i <= j])

\* C19 (as claimed): once a user message has been appended, the title of
\* the session is the first 32 characters of the first user message, and
\* stays so whatever is appended later.
C19_TitleSetOnce ==
    (UserPositions # {} /\ NoAppendUnderWay) =>
        /\ HasKey(hash, "title")
        /\ Get(hash, "title") = Prefix(FirstUserMessage.content, TitleLen)

\* the last n characters of s (all of s when it is shorter)
Suffix(s, n) == SubSeq(s, Len(s) - Min(n, Len(s)) + 1, Len(s))

\* C20 (as claimed, for the appends that write the hash; the system message,
\* which writes none, is the case of C14): once an append of a user or
\* assistant message has returned, the preview of the session is the last
\* 64 characters of the content of the most recently appended message.
C20_PreviewIsLastChars ==
    (list # <<>> /\ NoAppendUnderWay /\ LastMessage.role # "system") =>
        /\ HasKey(hash, "preview")
        /\ Get(hash, "preview") = Suffix(LastMessage.content, PreviewLen)

=============================================================================
